---- MODULE Spec2Model ----
(***************************************************************************)
(* Invoicing ROI simulator: the calculator (server/index.js                *)
(* computeResults), the HTTP routes over the scenario store, and the       *)
(* React client (client/src/App.jsx).                                      *)
(*                                                                         *)
(* Numbers.  JavaScript numbers are modelled as exact rationals            *)
(* [n |-> numerator, d |-> denominator] in lowest terms with d > 0; the    *)
(* value +Infinity is [n |-> 1, d |-> 0].  The model therefore follows the *)
(* arithmetic of the code over the reals: IEEE-754 representation error    *)
(* (of the order of 1e-16 relative) is not modelled.  Inputs are finite    *)
(* numbers; NaN, strings and -Infinity are outside the modelled domain.    *)
(***************************************************************************)
EXTENDS Integers, Sequences, FiniteSets, TLC

VARIABLES
    store,       \* server: the Scenario collection, _id -> persisted document
    nextId,      \* server: number of ObjectIds handed out by new Scenario(...)
    response,    \* server: the response in flight on each connection
    inputs,      \* client: useState(defaults)
    results,     \* client: useState(null)
    scenarios,   \* client: useState([])
    loading,     \* client: useState(false)
    email,       \* client: useState('')
    tasks,       \* client: the async handler invocations in progress, by slot
    resultsFrom  \* history: the handler whose setResults put results on screen

serverVars == <<store, nextId, response>>

clientVars == <<inputs, results, scenarios, loading, email, tasks, resultsFrom>>

vars == <<store, nextId, response, inputs, results, scenarios, loading, email,
          tasks, resultsFrom>>

----------------------------------------------------------------------------
(* Exact rational arithmetic standing for JavaScript number arithmetic.     *)

RECURSIVE GCD(_, _)
GCD(a, b) == IF b = 0 THEN a ELSE GCD(b, a % b)

IAbs(i) == IF i < 0 THEN -i ELSE i

\* the rational n/d (d # 0) in lowest terms with a positive denominator
Rat(n, d) ==
    LET g == GCD(IAbs(n), IAbs(d))
        s == IF d < 0 THEN -1 ELSE 1
    IN  [n |-> s * (n \div g), d |-> s * (d \div g)]

Num(i) == [n |-> i, d |-> 1]

Infinity == [n |-> 1, d |-> 0]

IsFinite(x) == x.d # 0

\* a * b, cross-reduced first so that intermediate products stay small
Mul(a, b) ==
    LET g1 == GCD(IAbs(a.n), b.d)
        g2 == GCD(IAbs(b.n), a.d)
    IN  IF g1 = 0 \/ g2 = 0
        THEN Num(0)
        ELSE [n |-> (a.n \div g1) * (b.n \div g2),
              d |-> (a.d \div g2) * (b.d \div g1)]

\* a / b for finite a and finite b # 0
Div(a, b) ==
    Mul(a, IF b.n < 0 THEN [n |-> -b.d, d |-> -b.n] ELSE [n |-> b.d, d |-> b.n])

Add(a, b) ==
    LET g == GCD(a.d, b.d)
    IN  Rat(a.n * (b.d \div g) + b.n * (a.d \div g), (a.d \div g) * b.d)

Neg(a) == [n |-> -a.n, d |-> a.d]

Sub(a, b) == Add(a, Neg(b))

\* a < b for finite a, b
Lt(a, b) == a.n * b.d < b.n * a.d

Leq(a, b) == a.n * b.d <= b.n * a.d

\* Math.abs
MathAbs(a) == [n |-> IAbs(a.n), d |-> a.d]

\* Math.max
MathMax(a, b) == IF Lt(a, b) THEN b ELSE a

\* Math.round(x * k) for a finite x and an integer k > 0.  Math.round gives
\* the integer nearest to its argument, ties towards +Infinity, that is
\* floor(x * k + 1/2).  The integer part of x is split off first to keep
\* the intermediate values small.
MathRoundTimes(x, k) ==
    LET q == x.n \div x.d
        r == x.n % x.d
        s == r * k
    IN  q * k + (s \div x.d) + (IF 2 * (s % x.d) >= x.d THEN 1 ELSE 0)

----------------------------------------------------------------------------
(* Server-side constants, server/index.js lines 16-19.                      *)

automated_cost_per_invoice == Rat(20, 100)

error_rate_auto == Rat(1, 10)

min_roi_boost_factor == Rat(11, 10)

----------------------------------------------------------------------------
(* computeResults, server/index.js lines 30-84.                             *)

InputFields ==
    {"monthly_invoice_volume", "num_ap_staff", "avg_hours_per_invoice",
     "hourly_wage", "error_rate_manual", "error_cost",
     "time_horizon_months", "one_time_implementation_cost"}

\* the default a destructured field takes when the payload lacks it
FieldDefault(f) == IF f = "time_horizon_months" THEN Num(36) ELSE Num(0)

\* a JSON string s, and JSON null
Str(s) == [str |-> s]

Null == [null |-> TRUE]

\* Number(text) for the texts that occur here: Number('') is 0,
\* Number('5') is 5, Number('B') is NaN
JsNumber(text) ==
    CASE text = ""  -> Num(0)
      [] text = "5" -> Num(5)
      [] OTHER      -> [nan |-> TRUE]

\* the conversion the operators *, -, / and > and the call Number(v) apply
\* to an operand: a number is itself, null is 0, a string is Number(string)
ToNumber(v) ==
    IF v = Null THEN Num(0)
    ELSE IF "str" \in DOMAIN v THEN JsNumber(v.str)
    ELSE v

\* const { ... = default } = inputs : the default replaces a missing field
\* only (not null).  Every later use of a field is an operand of *, -, /
\* or >, or the argument of Number(), so its value enters the calculation
\* through ToNumber.
Destructure(inp) ==
    [f \in InputFields |->
        IF f \in DOMAIN inp THEN ToNumber(inp[f]) ELSE FieldDefault(f)]

\* const round = (v) => Math.round((v + Number.EPSILON) * 100) / 100.
\* Infinity passes through (Math.round(Infinity) is Infinity).  For a finite
\* rational v = n/d the distance of v * 100 + 1/2 to the next integer above
\* is a multiple of 1/(2d), so adding 100 * Number.EPSILON (2.2e-14) cannot
\* carry it over while d < 2^31: the EPSILON term is exact-arithmetic
\* neutral and Math.round(v * 100) is computed directly.
\* round(v * k) for an integer k > 0, the product taken inside Math.round
RoundTimes(v, k) ==
    IF IsFinite(v) THEN Rat(MathRoundTimes(v, 100 * k), 100) ELSE v

round(v) == RoundTimes(v, 1)

\* payback_months: round(payback_months * 100) / 100
RoundPayback(v) ==
    IF IsFinite(v) THEN Div(RoundTimes(v, 100), Num(100)) ELSE v

\* 1) labor cost manual per month
labor_cost_manual(inp) ==
    LET i == Destructure(inp)
    IN  Mul(Mul(Mul(i.num_ap_staff, i.hourly_wage), i.avg_hours_per_invoice),
            i.monthly_invoice_volume)

\* 2) automation cost per month
auto_cost(inp) ==
    Mul(Destructure(inp).monthly_invoice_volume, automated_cost_per_invoice)

\* 3) error savings per month
error_savings(inp) ==
    LET i == Destructure(inp)
    IN  Mul(Mul(Div(Sub(i.error_rate_manual, error_rate_auto), Num(100)),
                i.monthly_invoice_volume),
            i.error_cost)

\* 4) monthly savings before bias
monthly_savings_raw(inp) ==
    Sub(Add(labor_cost_manual(inp), error_savings(inp)), auto_cost(inp))

\* 5) the bias factor applied
monthly_savings_biased(inp) ==
    Mul(monthly_savings_raw(inp), min_roi_boost_factor)

\* the floor applied only to negative savings
FloorPolicy_BelowZero(ms) ==
    IF Lt(ms, Num(0))
    THEN Mul(MathMax(Num(1), MathAbs(ms)), min_roi_boost_factor)
    ELSE ms

\* "Ensure favorable outcome": the statement of line 63, on the variable
\* monthly_savings, which holds the biased value when it runs
FloorPolicy(ms) ==
    IF Lt(ms, Num(1))
    THEN Mul(MathMax(Num(1), MathAbs(ms)), min_roi_boost_factor)
    ELSE ms

\* monthly_savings as it stands after line 63, before rounding
monthly_savings(inp) == FloorPolicy(monthly_savings_biased(inp))

\* the cumulative savings taken from the rounded monthly savings
cumulative_savings_FromRounded(inp) ==
    Mul(RoundTimes(monthly_savings(inp), 1), Destructure(inp).time_horizon_months)

\* 6) cumulative and ROI
cumulative_savings(inp) ==
    Mul(monthly_savings(inp), Destructure(inp).time_horizon_months)

net_savings(inp) ==
    Sub(cumulative_savings(inp),
        Destructure(inp).one_time_implementation_cost)

\* the payback guarded like the ROI, on the implementation cost
payback_months_GuardOnCost(inp) ==
    IF Lt(Num(0), Destructure(inp).one_time_implementation_cost)
    THEN Div(Destructure(inp).one_time_implementation_cost,
             monthly_savings(inp))
    ELSE Infinity

payback_months(inp) ==
    IF Lt(Num(0), monthly_savings(inp))
    THEN Div(Destructure(inp).one_time_implementation_cost,
             monthly_savings(inp))
    ELSE Infinity

roi_percentage(inp) ==
    IF Lt(Num(0), Destructure(inp).one_time_implementation_cost)
    THEN Mul(Div(net_savings(inp),
                 Destructure(inp).one_time_implementation_cost),
             Num(100))
    ELSE Infinity

computeResults(inp) ==
    [labor_cost_manual  |-> round(labor_cost_manual(inp)),
     auto_cost          |-> round(auto_cost(inp)),
     error_savings      |-> round(error_savings(inp)),
     monthly_savings    |-> round(monthly_savings(inp)),
     cumulative_savings |-> round(cumulative_savings(inp)),
     net_savings        |-> round(net_savings(inp)),
     payback_months     |-> RoundPayback(payback_months(inp)),
     roi_percentage     |-> round(roi_percentage(inp))]

----------------------------------------------------------------------------
(* Values of the model.                                                     *)
(*                                                                          *)
(* A JSON body is a record holding the fields that are present; a missing   *)
(* field is a name outside its DOMAIN.  An ObjectId is a positive integer  *)
(* (the k-th id handed out); an id string that does not cast to ObjectId    *)
(* is a member of MalformedIds.  A JavaScript string s is [str |-> s].      *)

MaxScenarios == 1

ListLimit == 50

ObjectIds == 1..MaxScenarios

MalformedIds == {-1}

\* !v for a string or a number: "" and 0 are falsy
FalsyValue(v) == v = Str("") \/ v = Num(0)

\* !body.f : a missing field is undefined, which is falsy
Falsy(body, f) == f \notin DOMAIN body \/ FalsyValue(body[f])

\* the String cast mongoose applies to scenario_name on save (the numbers
\* that reach it here are integers)
CastString(v) == IF "n" \in DOMAIN v THEN Str(ToString(v.n)) ELSE v

\* the part of a payload the Scenario constructor copies: the eight inputs
CopiedInputs(payload) ==
    [f \in (DOMAIN payload) \cap InputFields |-> payload[f]]

\* the Number cast mongoose applies to an input field on save: null and ''
\* are stored as null, a numeric string as its number, a number as it is
CastNumber(v) ==
    IF v = Null \/ v = Str("") THEN Null
    ELSE IF "str" \in DOMAIN v THEN JsNumber(v.str)
    ELSE v

\* the cast throws on a string that is not a number, and doc.save() rejects
CastFails(payload) ==
    \E f \in (DOMAIN payload) \cap InputFields :
        CastNumber(payload[f]) = [nan |-> TRUE]

\* the stored inputs with every missing field stored as 0
StoredInputs_Defaulted(payload) ==
    [f \in InputFields |->
        IF f \in DOMAIN payload THEN CastNumber(payload[f]) ELSE Num(0)]

\* the input fields of the document new Scenario({...}) builds: a field
\* the payload lacks is undefined and is not stored
StoredInputs(payload) ==
    [f \in DOMAIN CopiedInputs(payload) |-> CastNumber(payload[f])]

\* nothing has been sent on a connection
NoResponse == [route |-> "none"]

JsonError(route, status, message) ==
    [route |-> route, status |-> status, success |-> FALSE, message |-> message]

----------------------------------------------------------------------------
(* Routes, server/index.js lines 89-220.                                    *)

\* POST /simulate
PostSimulate(c, body) ==
    /\ response' = [response EXCEPT ![c] =
                       [route |-> "POST /simulate", status |-> 200, success |-> TRUE,
                        inputs |-> body, results |-> computeResults(body)]]
    /\ UNCHANGED <<store, nextId>>

\* new Scenario({...}) followed by doc.save()
NewScenario(payload, id) ==
    StoredInputs(payload) @@
    [_id           |-> id,
     scenario_name |-> CastString(payload.scenario_name),
     results       |-> computeResults(payload),
     created_at    |-> id]

\* the name check passing an empty name: only a missing one is rejected
PostScenarios_MissingOnly(c, payload) ==
    IF "scenario_name" \notin DOMAIN payload
    THEN /\ response' = [response EXCEPT ![c] =
                            JsonError("POST /scenarios", 400, "Scenario name required")]
         /\ UNCHANGED <<store, nextId>>
    ELSE IF CastFails(payload)
    THEN /\ response' = [response EXCEPT ![c] =
                            JsonError("POST /scenarios", 500, "Save failed")]
         /\ UNCHANGED <<store, nextId>>
    ELSE /\ nextId < MaxScenarios
         /\ nextId' = nextId + 1
         /\ LET saved == NewScenario(payload, nextId + 1)
            IN  /\ store' = (nextId + 1 :> saved) @@ store
                /\ response' = [response EXCEPT ![c] =
                                   [route |-> "POST /scenarios", status |-> 200,
                                    success |-> TRUE, scenario |-> saved]]

\* POST /scenarios (save)
PostScenarios(c, payload) ==
    IF Falsy(payload, "scenario_name")
    THEN /\ response' = [response EXCEPT ![c] =
                            JsonError("POST /scenarios", 400, "Scenario name required")]
         /\ UNCHANGED <<store, nextId>>
    ELSE IF CastFails(payload)
    THEN /\ response' = [response EXCEPT ![c] =
                            JsonError("POST /scenarios", 500, "Save failed")]
         /\ UNCHANGED <<store, nextId>>
    ELSE /\ nextId < MaxScenarios
         /\ nextId' = nextId + 1
         /\ LET saved == NewScenario(payload, nextId + 1)
            IN  /\ store' = (nextId + 1 :> saved) @@ store
                /\ response' = [response EXCEPT ![c] =
                                   [route |-> "POST /scenarios", status |-> 200,
                                    success |-> TRUE, scenario |-> saved]]

\* the ids of the set S of documents, most recent created_at first
RECURSIVE SortDesc(_)
SortDesc(S) ==
    IF S = {} THEN <<>>
    ELSE LET top == CHOOSE i \in S : \A j \in S : store[j].created_at <= store[i].created_at
         IN  <<top>> \o SortDesc(S \ {top})

\* Scenario.find({}).sort({ created_at: -1 }).limit(50)
FindSorted ==
    LET ids == SortDesc(DOMAIN store)
        k   == IF Len(ids) < ListLimit THEN Len(ids) ELSE ListLimit
    IN  [i \in 1..k |-> store[ids[i]]]

\* GET /scenarios (list)
GetScenarios(c) ==
    /\ response' = [response EXCEPT ![c] =
                       [route |-> "GET /scenarios", status |-> 200, success |-> TRUE,
                        scenarios |-> FindSorted]]
    /\ UNCHANGED <<store, nextId>>

\* GET /scenarios/:id ; findById throws a CastError on a malformed id
GetScenarioById(c, id) ==
    /\ response' = [response EXCEPT ![c] =
         IF id \in MalformedIds
         THEN JsonError("GET /scenarios/:id", 400, "Invalid id")
         ELSE IF id \notin DOMAIN store
         THEN JsonError("GET /scenarios/:id", 404, "Not found")
         ELSE [route |-> "GET /scenarios/:id", status |-> 200, success |-> TRUE,
               scenario |-> store[id]]]
    /\ UNCHANGED <<store, nextId>>

\* DELETE /scenarios/:id ; findByIdAndDelete throws a CastError on a
\* malformed id and resolves to null when no document has the id
DeleteScenarioById(c, id) ==
    IF id \in MalformedIds
    THEN /\ response' = [response EXCEPT ![c] =
                            [route |-> "DELETE /scenarios/:id", status |-> 400,
                             success |-> FALSE]]
         /\ UNCHANGED <<store, nextId>>
    ELSE /\ store' = [i \in (DOMAIN store) \ {id} |-> store[i]]
         /\ response' = [response EXCEPT ![c] =
                            [route |-> "DELETE /scenarios/:id", status |-> 200,
                             success |-> TRUE]]
         /\ UNCHANGED nextId

\* the document pdfkit renders: name, recipient, the inputs, four results
PdfContent(scenario, recipient) ==
    [scenario_name |-> scenario.scenario_name,
     email         |-> recipient,
     inputs        |-> CopiedInputs(scenario),
     results       |-> [f \in {"monthly_savings", "cumulative_savings",
                               "payback_months", "roi_percentage"} |->
                           scenario.results[f]]]

\* POST /report/generate
PostReportGenerate(c, body) ==
    /\ response' = [response EXCEPT ![c] =
         IF Falsy(body, "email")
         THEN JsonError("POST /report/generate", 400, "Email required")
         ELSE IF "scenarioId" \notin DOMAIN body
         THEN JsonError("POST /report/generate", 400, "scenarioId required")
         ELSE IF body.scenarioId \in MalformedIds
         THEN JsonError("POST /report/generate", 500, "Report generation failed")
         ELSE IF body.scenarioId \notin DOMAIN store
         THEN JsonError("POST /report/generate", 404, "Scenario not found")
         ELSE [route |-> "POST /report/generate", status |-> 200,
               contentType |-> "application/pdf",
               pdf |-> PdfContent(store[body.scenarioId], body.email)]]
    /\ UNCHANGED <<store, nextId>>

\* the server handling the request req that arrived on connection c
Route(c, req) ==
    CASE req.route = "POST /simulate"        -> PostSimulate(c, req.body)
      [] req.route = "POST /scenarios"       -> PostScenarios(c, req.body)
      [] req.route = "GET /scenarios"        -> GetScenarios(c)
      [] req.route = "GET /scenarios/:id"    -> GetScenarioById(c, req.id)
      [] req.route = "DELETE /scenarios/:id" -> DeleteScenarioById(c, req.id)
      [] req.route = "POST /report/generate" -> PostReportGenerate(c, req.body)

----------------------------------------------------------------------------
(* The client, client/src/App.jsx, and its axios calls.                     *)
(*                                                                          *)
(* A task is one invocation of an async handler: the closure it captured    *)
(* when it started (inputs, email), the request it awaits (req), whether    *)
(* the server has answered (stage) and with what (res), and its locals      *)
(* (saveRes).  The theme toggle touches no other state and is left out.     *)
(* The server is reachable: a request fails only by its HTTP status.        *)

MaxTasks == 1

Slots == 1..MaxTasks

Idle == [kind |-> "idle", stage |-> "none"]

defaults ==
    [scenario_name                |-> Str("My_Scenario"),
     monthly_invoice_volume       |-> Num(2000),
     num_ap_staff                 |-> Num(3),
     avg_hours_per_invoice        |-> Rat(17, 100),
     hourly_wage                  |-> Num(30),
     error_rate_manual            |-> Rat(1, 2),
     error_cost                   |-> Num(100),
     time_horizon_months          |-> Num(36),
     one_time_implementation_cost |-> Num(50000)]

\* isNaN(Number(value)) ? value : Number(value)
Coerce(text) ==
    IF JsNumber(text) = [nan |-> TRUE] THEN Str(text) ELSE JsNumber(text)

\* the fields the user edits here and what is typed into each; the numeric
\* fields are <input type="number">, which hold no text that is not a number
EditChoices == {<<"scenario_name", "">>, <<"monthly_invoice_volume", "5">>}

EmailTexts == {"", "a@b.c"}

\* axios rejects the promise of a response whose status is not 2xx
Rejected(res) == res.status < 200 \/ res.status >= 300

FreeSlot(s) == tasks[s] = Idle /\ \A r \in Slots : r < s => tasks[r] # Idle

Await(kind, req) == [kind |-> kind, stage |-> "sent", req |-> req]

ListRequest == [route |-> "GET /scenarios"]

\* fetchScenarios(), up to its await
FetchScenariosTask == Await("fetchScenarios", ListRequest)

\* onChange of an input of the form
OnChange(name, text) ==
    /\ inputs' = [inputs EXCEPT ![name] = Coerce(text)]
    /\ UNCHANGED <<results, scenarios, loading, email, tasks, resultsFrom>>
    /\ UNCHANGED serverVars

\* onChange of the email input
OnChangeEmail(text) ==
    /\ email' = Str(text)
    /\ UNCHANGED <<inputs, results, scenarios, loading, tasks, resultsFrom>>
    /\ UNCHANGED serverVars

\* Run Simulation clicked (the button is disabled while loading)
HandleSimulate(s) ==
    /\ ~loading
    /\ FreeSlot(s)
    /\ loading' = TRUE
    /\ tasks' = [tasks EXCEPT ![s] =
                   Await("handleSimulate", [route |-> "POST /simulate", body |-> inputs])]
    /\ UNCHANGED <<inputs, results, scenarios, email, resultsFrom>>
    /\ UNCHANGED serverVars

\* Save Scenario clicked
HandleSave(s) ==
    /\ FreeSlot(s)
    /\ tasks' = [tasks EXCEPT ![s] =
                   Await("handleSave", [route |-> "POST /scenarios", body |-> inputs])]
    /\ UNCHANGED <<inputs, results, scenarios, loading, email, resultsFrom>>
    /\ UNCHANGED serverVars

\* Load clicked on the i-th item of the list
HandleLoad(s, i) ==
    /\ FreeSlot(s)
    /\ i \in 1..Len(scenarios)
    /\ tasks' = [tasks EXCEPT ![s] =
                   Await("handleLoad", [route |-> "GET /scenarios/:id",
                                        id |-> scenarios[i]._id])]
    /\ UNCHANGED <<inputs, results, scenarios, loading, email, resultsFrom>>
    /\ UNCHANGED serverVars

\* Delete clicked on the i-th item of the list and confirmed (a cancelled
\* confirm returns at once and changes nothing)
HandleDelete(s, i) ==
    /\ FreeSlot(s)
    /\ i \in 1..Len(scenarios)
    /\ tasks' = [tasks EXCEPT ![s] =
                   Await("handleDelete", [route |-> "DELETE /scenarios/:id",
                                          id |-> scenarios[i]._id])]
    /\ UNCHANGED <<inputs, results, scenarios, loading, email, resultsFrom>>
    /\ UNCHANGED serverVars

\* the guards of handleReport without the email check
ReportGate_NoEmailCheck == results # Null

\* the two guards of handleReport
ReportGate == ~FalsyValue(email) /\ results # Null

\* Generate Report clicked: past the guards, up to the await of saveScenario
HandleReport(s) ==
    /\ FreeSlot(s)
    /\ ReportGate
    /\ tasks' = [tasks EXCEPT ![s] =
                   [kind |-> "handleReport", await |-> "saveScenario",
                    stage |-> "sent", inputs |-> inputs, email |-> email,
                    req |-> [route |-> "POST /scenarios", body |-> inputs]]]
    /\ UNCHANGED <<inputs, results, scenarios, loading, email, resultsFrom>>
    /\ UNCHANGED serverVars

\* the server answers the request a task awaits
ServerHandle(s) ==
    /\ tasks[s].stage = "sent"
    /\ Route(s, tasks[s].req)
    /\ tasks' = [tasks EXCEPT ![s].stage = "responded"]
    /\ UNCHANGED <<inputs, results, scenarios, loading, email, resultsFrom>>

\* the awaited promise settles: the response leaves the connection
Consume(s) ==
    /\ response' = [response EXCEPT ![s] = NoResponse]
    /\ UNCHANGED <<store, nextId>>

Responded(s, kind) ==
    /\ tasks[s].kind = kind
    /\ tasks[s].stage = "responded"

\* fetchScenarios after its await
ResumeFetchScenarios(s) ==
    /\ Responded(s, "fetchScenarios")
    /\ scenarios' = IF ~Rejected(response[s]) /\ response[s].success
                    THEN response[s].scenarios ELSE scenarios
    /\ tasks' = [tasks EXCEPT ![s] = Idle]
    /\ UNCHANGED <<inputs, results, loading, email, resultsFrom>>
    /\ Consume(s)

\* handleSimulate after its await
ResumeSimulate(s) ==
    /\ Responded(s, "handleSimulate")
    /\ IF ~Rejected(response[s]) /\ response[s].success
       THEN results' = response[s].results /\ resultsFrom' = "simulate"
       ELSE UNCHANGED <<results, resultsFrom>>
    /\ loading' = FALSE
    /\ tasks' = [tasks EXCEPT ![s] = Idle]
    /\ UNCHANGED <<inputs, scenarios, email>>
    /\ Consume(s)

\* handleSave showing the results the save returned
ResumeSave_ShowsSaved(s) ==
    /\ Responded(s, "handleSave")
    /\ IF ~Rejected(response[s]) /\ response[s].success
       THEN /\ results' = response[s].scenario.results
            /\ tasks' = [tasks EXCEPT ![s] = FetchScenariosTask]
       ELSE /\ tasks' = [tasks EXCEPT ![s] = Idle]
            /\ UNCHANGED results
    /\ UNCHANGED <<inputs, scenarios, loading, email, resultsFrom>>
    /\ Consume(s)

\* handleSave after its await: on success, fetchScenarios()
ResumeSave(s) ==
    /\ Responded(s, "handleSave")
    /\ tasks' = [tasks EXCEPT ![s] =
                   IF ~Rejected(response[s]) /\ response[s].success
                   THEN FetchScenariosTask ELSE Idle]
    /\ UNCHANGED <<inputs, results, scenarios, loading, email, resultsFrom>>
    /\ Consume(s)

\* the setInputs of handleLoad
LoadedInputs(scenario) ==
    [scenario_name |-> scenario.scenario_name] @@ CopiedInputs(scenario)

\* what handleLoad does to results once the scenario has arrived
LoadedResults(scenario) == scenario.results

\* handleLoad after its await
ResumeLoad(s) ==
    /\ Responded(s, "handleLoad")
    /\ IF ~Rejected(response[s]) /\ response[s].success
       THEN /\ inputs' = LoadedInputs(response[s].scenario)
            /\ results' = LoadedResults(response[s].scenario)
            /\ resultsFrom' = "load"
       ELSE UNCHANGED <<inputs, results, resultsFrom>>
    /\ tasks' = [tasks EXCEPT ![s] = Idle]
    /\ UNCHANGED <<scenarios, loading, email>>
    /\ Consume(s)

\* handleDelete after its await: fetchScenarios() unless the request failed
ResumeDelete(s) ==
    /\ Responded(s, "handleDelete")
    /\ tasks' = [tasks EXCEPT ![s] =
                   IF ~Rejected(response[s]) THEN FetchScenariosTask ELSE Idle]
    /\ UNCHANGED <<inputs, results, scenarios, loading, email, resultsFrom>>
    /\ Consume(s)

\* the task of handleReport after saveScenario has answered: it ends when the
\* save was rejected or unsuccessful, and else awaits generateReport
AfterSave(t, res) ==
    IF Rejected(res) \/ ~res.success
    THEN Idle
    ELSE [kind |-> "handleReport", await |-> "generateReport", stage |-> "sent",
          inputs |-> t.inputs, email |-> t.email, saveRes |-> res,
          req |-> [route |-> "POST /report/generate",
                   body |-> [scenarioId |-> res.scenario._id, email |-> t.email]]]

\* handleReport after either await (after generateReport: the download)
ResumeReport(s) ==
    /\ Responded(s, "handleReport")
    /\ tasks' = [tasks EXCEPT ![s] =
                   IF tasks[s].await = "saveScenario" THEN AfterSave(tasks[s], response[s])
                   ELSE Idle]
    /\ UNCHANGED <<inputs, results, scenarios, loading, email, resultsFrom>>
    /\ Consume(s)

----------------------------------------------------------------------------
(* Specifications.                                                          *)

\* the state once the server listens and App has mounted: the mount effect
\* has called fetchScenarios()
Init ==
    /\ store = <<>>
    /\ nextId = 0
    /\ response = [c \in Slots |-> NoResponse]
    /\ inputs = defaults
    /\ results = Null
    /\ scenarios = <<>>
    /\ loading = FALSE
    /\ email = Str("")
    /\ tasks = [s \in Slots |-> IF s = 1 THEN FetchScenariosTask ELSE Idle]
    /\ resultsFrom = "none"

\* the client and the server it talks to
Next ==
    \/ \E c \in EditChoices : OnChange(c[1], c[2])
    \/ \E t \in EmailTexts : OnChangeEmail(t)
    \/ \E s \in Slots : HandleSimulate(s)
    \/ \E s \in Slots : HandleSave(s)
    \/ \E s \in Slots, i \in 1..MaxScenarios : HandleLoad(s, i)
    \/ \E s \in Slots, i \in 1..MaxScenarios : HandleDelete(s, i)
    \/ \E s \in Slots : HandleReport(s)
    \/ \E s \in Slots : ServerHandle(s)
    \/ \E s \in Slots : ResumeFetchScenarios(s)
    \/ \E s \in Slots : ResumeSimulate(s)
    \/ \E s \in Slots : ResumeSave(s)
    \/ \E s \in Slots : ResumeLoad(s)
    \/ \E s \in Slots : ResumeDelete(s)
    \/ \E s \in Slots : ResumeReport(s)

Spec == Init /\ [][Next]_vars

----------------------------------------------------------------------------
(* The server under requests from any HTTP client.                          *)

\* any HTTP client puts a request on connection s once the connection's
\* previous request has been answered
SendRequest(s, req) ==
    /\ tasks[s].stage # "sent"
    /\ tasks' = [tasks EXCEPT ![s] = Await("http", req)]
    /\ response' = [response EXCEPT ![s] = NoResponse]
    /\ UNCHANGED <<store, nextId, inputs, results, scenarios, loading, email,
                   resultsFrom>>

\* no request in flight: the server listens and no page is open
InitServer ==
    /\ store = <<>>
    /\ nextId = 0
    /\ response = [c \in Slots |-> NoResponse]
    /\ inputs = defaults
    /\ results = Null
    /\ scenarios = <<>>
    /\ loading = FALSE
    /\ email = Str("")
    /\ tasks = [s \in Slots |-> Idle]
    /\ resultsFrom = "none"

\* the inputs of a payload: the eight fields without scenario_name
Scenario1 == [f \in InputFields |-> defaults[f]]

AllZero == [f \in InputFields |->
               IF f = "time_horizon_months" THEN Num(36) ELSE Num(0)]

NoFields == [f \in {} |-> Num(0)]

\* inputs sent as JSON strings and null
AsText ==
    [monthly_invoice_volume       |-> Str("5"),
     time_horizon_months          |-> Str(""),
     one_time_implementation_cost |-> Null]

\* an input that is no number
NotANumber == [monthly_invoice_volume |-> Str("B")]

ServerInputs == {Scenario1, AllZero, NoFields, AsText}

ServerNames == {Str(""), Num(0), Str("A"), Str("B")}

\* payloads of POST /scenarios: with and without scenario_name
SavePayloads ==
    ServerInputs \cup
    {[scenario_name |-> n] @@ i :
        n \in ServerNames, i \in ServerInputs \cup {NotANumber}}

\* ids a request may carry: handed out or not, and malformed
RequestIds == (1..(MaxScenarios + 1)) \cup MalformedIds

ReportBodies ==
    {NoFields} \cup
    {[email |-> Str(e)] : e \in EmailTexts} \cup
    {[scenarioId |-> i] : i \in RequestIds} \cup
    {[scenarioId |-> i, email |-> Str(e)] : i \in RequestIds, e \in EmailTexts}

ServerRequests ==
    {[route |-> "POST /simulate", body |-> i] : i \in ServerInputs} \cup
    {[route |-> "POST /scenarios", body |-> p] : p \in SavePayloads} \cup
    {ListRequest} \cup
    {[route |-> "GET /scenarios/:id", id |-> i] : i \in RequestIds} \cup
    {[route |-> "DELETE /scenarios/:id", id |-> i] : i \in RequestIds} \cup
    {[route |-> "POST /report/generate", body |-> b] : b \in ReportBodies}

\* each route handler runs to its response without yielding to another
\* request between its database call and its effect, so requests are
\* served one at a time: one connection carries them all
NextServer ==
    \/ \E req \in ServerRequests : SendRequest(1, req)
    \/ ServerHandle(1)

SpecServer == InitServer /\ [][NextServer]_vars

----------------------------------------------------------------------------
(* The calculator under POST /simulate over a grid of inputs.               *)

VolumeVals == {Num(0), Num(5), Num(500), Num(2000)}

StaffVals == {Num(0), Num(3)}

HoursVals == {Num(0), Rat(17, 100)}

WageVals == {Num(0), Num(30)}

ErrorRateVals == {Num(0), Rat(1, 10), Rat(1, 2)}

ErrorCostVals == {Num(0), Num(97), Num(100)}

HorizonVals == {Num(1), Num(36)}

CostVals == {Num(0), Num(1200), Num(50000), Num(-100)}

CalcFull ==
    {[monthly_invoice_volume       |-> v,
      num_ap_staff                 |-> st,
      avg_hours_per_invoice        |-> h,
      hourly_wage                  |-> w,
      error_rate_manual            |-> er,
      error_cost                   |-> ec,
      time_horizon_months          |-> t,
      one_time_implementation_cost |-> c] :
        v \in VolumeVals, st \in StaffVals, h \in HoursVals, w \in WageVals,
        er \in ErrorRateVals, ec \in ErrorCostVals, t \in HorizonVals,
        c \in CostVals}

\* bodies that lack the horizon and the cost, which then take their defaults
CalcPartial ==
    {[f \in InputFields \ {"time_horizon_months", "one_time_implementation_cost"}
        |-> p[f]] : p \in CalcFull}

CalcPayloads == CalcFull \cup CalcPartial

\* computeResults keeps no state: one connection shows all it does
NextCalc ==
    \/ \E p \in CalcPayloads :
          SendRequest(1, [route |-> "POST /simulate", body |-> p])
    \/ ServerHandle(1)

SpecCalc == InitServer /\ [][NextCalc]_vars

----------------------------------------------------------------------------
(* Properties of computeResults, checked under SpecCalc.                    *)

\* the server has answered a POST /simulate on connection c
SimAnswered(c) ==
    tasks[c].stage = "responded" /\ response[c].route = "POST /simulate"

\* x * 100 is an integer (x is in lowest terms)
TwoDecimals(x) == IsFinite(x) /\ 100 % x.d = 0

OnePointOne == Rat(11, 10)

\* C1: whenever the biased monthly savings (raw x 1.1) is below 1, the
\* reported monthly_savings is max(1, |monthly_savings_raw|) x 1.1, with
\* monthly_savings_raw the value before the bias is applied.
C1_FloorOnRawSavings ==
    \A c \in Slots :
        (SimAnswered(c) /\ Lt(monthly_savings_biased(response[c].inputs), Num(1)))
        => response[c].results.monthly_savings =
             round(Mul(MathMax(Num(1),
                               MathAbs(monthly_savings_raw(response[c].inputs))),
                       min_roi_boost_factor))

\* C2 as stated: for all inputs monthly_savings is at least 1.1, before and
\* after rounding.
C2_AtLeastOnePointOne ==
    \A c \in Slots :
        SimAnswered(c)
        => /\ Leq(OnePointOne, monthly_savings(response[c].inputs))
           /\ Leq(OnePointOne, response[c].results.monthly_savings)

\* C2 as amended: for all finite numeric inputs monthly_savings is at least
\* 1, before and after rounding, and at least 1.1 whenever the floor branch
\* is taken (biased savings below 1).
C2_AtLeastOne ==
    \A c \in Slots :
        SimAnswered(c)
        => LET i == response[c].inputs
               r == response[c].results
           IN  /\ Leq(Num(1), monthly_savings(i))
               /\ Leq(Num(1), r.monthly_savings)
               /\ Lt(monthly_savings_biased(i), Num(1))
                    => /\ Leq(OnePointOne, monthly_savings(i))
                       /\ Leq(OnePointOne, r.monthly_savings)

\* the biased savings lie in [1, 1.1): the floor branch is not taken
C2_Witness ==
    \E c \in Slots :
        /\ SimAnswered(c)
        /\ Leq(Num(1), monthly_savings_biased(response[c].inputs))
        /\ Lt(monthly_savings_biased(response[c].inputs), OnePointOne)

NonNegative(body) == \A f \in DOMAIN body : Leq(Num(0), body[f])

ZeroCost(body) == Destructure(body).one_time_implementation_cost = Num(0)

\* C3 as stated: for all non-negative inputs with
\* one_time_implementation_cost = 0, payback_months and roi_percentage are
\* both positive infinity.
C3_BothInfinite ==
    \A c \in Slots :
        (SimAnswered(c) /\ NonNegative(response[c].inputs)
                        /\ ZeroCost(response[c].inputs))
        => /\ response[c].results.payback_months = Infinity
           /\ response[c].results.roi_percentage = Infinity

\* C3 as amended: for all non-negative inputs with
\* one_time_implementation_cost = 0, roi_percentage is positive infinity
\* and payback_months is 0.
C3_RoiInfinitePaybackZero ==
    \A c \in Slots :
        (SimAnswered(c) /\ NonNegative(response[c].inputs)
                        /\ ZeroCost(response[c].inputs))
        => /\ response[c].results.roi_percentage = Infinity
           /\ response[c].results.payback_months = Num(0)

\* a non-negative request without cost has been answered, with savings
C3_Witness ==
    \E c \in Slots :
        /\ SimAnswered(c)
        /\ NonNegative(response[c].inputs)
        /\ ZeroCost(response[c].inputs)
        /\ Lt(Num(0), monthly_savings_raw(response[c].inputs))

\* C4: every one of the eight returned fields is positive infinity or has at
\* most 2 decimal places (value x 100 is an integer); stated here for the
\* non-negative inputs of the data model.
C4_TwoDecimalPlaces ==
    \A c \in Slots :
        (SimAnswered(c) /\ NonNegative(response[c].inputs))
        => \A f \in DOMAIN response[c].results :
              \/ response[c].results[f] = Infinity
              \/ TwoDecimals(response[c].results[f])

\* C5 as stated: cumulative_savings equals round(monthly_savings x
\* time_horizon_months, 2) with monthly_savings the returned (rounded) value.
C5_CumulativeFromReturnedMonthly ==
    \A c \in Slots :
        SimAnswered(c)
        => response[c].results.cumulative_savings =
             round(Mul(response[c].results.monthly_savings,
                       Destructure(response[c].inputs).time_horizon_months))

\* C5 as amended: cumulative_savings equals round(m x time_horizon_months, 2)
\* with m the monthly savings before rounding (after bias and floor); it
\* equals round(returned monthly_savings x time_horizon_months, 2) whenever m
\* has at most 2 decimal places.
C5_CumulativeFromUnroundedMonthly ==
    \A c \in Slots :
        SimAnswered(c)
        => LET i == response[c].inputs
               r == response[c].results
               t == Destructure(i).time_horizon_months
           IN  /\ r.cumulative_savings = round(Mul(monthly_savings(i), t))
               /\ TwoDecimals(monthly_savings(i))
                    => r.cumulative_savings = round(Mul(r.monthly_savings, t))

\* the monthly savings have a third decimal and the two roundings differ
C5_Witness ==
    \E c \in Slots :
        /\ SimAnswered(c)
        /\ ~TwoDecimals(monthly_savings(response[c].inputs))
        /\ response[c].results.cumulative_savings #
             round(Mul(response[c].results.monthly_savings,
                       Destructure(response[c].inputs).time_horizon_months))

----------------------------------------------------------------------------
(* Properties of the routes, checked under SpecServer.                      *)

\* this step is the server answering the request in flight on connection c
Answers(c) == tasks[c].stage = "sent" /\ tasks'[c].stage = "responded"

NamelessSave(req) ==
    req.route = "POST /scenarios" /\ Falsy(req.body, "scenario_name")

\* C6: a POST /scenarios whose payload has no or an empty scenario_name is
\* answered with status 400 and leaves the persisted scenarios unchanged,
\* whatever the store holds.
C6_NamelessSaveRejected ==
    [][\A c \in Slots :
          (Answers(c) /\ NamelessSave(tasks[c].req))
          => /\ response'[c].status = 400
             /\ store' = store
             /\ nextId' = nextId]_vars

\* a nameless save has been answered while a scenario is persisted
C6_Witness ==
    \E c \in Slots :
        /\ tasks[c].stage = "responded"
        /\ NamelessSave(tasks[c].req)
        /\ response[c].route = "POST /scenarios"
        /\ DOMAIN store # {}

\* C7: POST /report/generate answers 400 when email or scenarioId is missing
\* and 404 when scenarioId does not resolve to a persisted scenario; in each
\* of these cases no PDF is produced and the store is unchanged.
C7_ReportFailures ==
    [][\A c \in Slots :
          (Answers(c) /\ tasks[c].req.route = "POST /report/generate")
          => LET b == tasks[c].req.body
                 missing == Falsy(b, "email") \/ "scenarioId" \notin DOMAIN b
                 unresolved == ~missing /\ b.scenarioId \notin DOMAIN store
             IN  /\ missing => response'[c].status = 400
                 /\ unresolved => response'[c].status = 404
                 /\ (missing \/ unresolved)
                      => /\ "pdf" \notin DOMAIN response'[c]
                         /\ store' = store]_vars

\* C8: GET /scenarios/:id and DELETE /scenarios/:id answer with a failure
\* (404 or 400, never success) whenever the id is malformed or does not
\* refer to a persisted scenario.
C8_GetDeleteFailOnUnknownId ==
    [][\A c \in Slots :
          (/\ Answers(c)
           /\ tasks[c].req.route \in {"GET /scenarios/:id", "DELETE /scenarios/:id"}
           /\ tasks[c].req.id \notin DOMAIN store)
          => /\ response'[c].status \in {400, 404}
             /\ ~response'[c].success]_vars

----------------------------------------------------------------------------
(* Properties of the client, checked under Spec.                            *)

\* C9 as stated: results are on screen only as the outcome of a simulate
\* call made by the client.
C9_ResultsOnlyFromSimulate == results # Null => resultsFrom = "simulate"

\* the handler of slot s ends in this step, having received from route the
\* response whose results are now on screen
Shows(s, kind, route, shown) ==
    /\ tasks[s].kind = kind
    /\ tasks[s].stage = "responded"
    /\ tasks'[s] = Idle
    /\ response[s].route = route
    /\ response[s].status = 200
    /\ results' = shown

\* C9 as amended: results are put on screen or changed only as the outcome
\* of a simulate call or of loading a saved scenario (getScenario), which
\* shows the results stored with it; no other action changes them.
C9_ResultsOnlyFromSimulateOrLoad ==
    [][results' # results
       => \E s \in Slots :
             \/ /\ Shows(s, "handleSimulate", "POST /simulate", response[s].results)
                /\ resultsFrom' = "simulate"
             \/ /\ response[s].route = "GET /scenarios/:id"
                /\ Shows(s, "handleLoad", "GET /scenarios/:id",
                         response[s].scenario.results)
                /\ resultsFrom' = "load"]_vars

\* results are on screen that a load put there
C9_Witness == results # Null /\ resultsFrom = "load"

\* C10: every generateReport request follows a successful saveScenario of
\* the inputs current when Generate Report was clicked and asks for the id
\* that save returned; with an empty email, without results or after a
\* failed save no report request is sent.
C10_ReportAfterSave ==
    \A s \in Slots :
        /\ (tasks[s].stage # "none" /\ tasks[s].req.route = "POST /report/generate")
             => tasks[s].kind = "handleReport"
        /\ tasks[s].kind = "handleReport"
             => LET t == tasks[s]
                IN  /\ ~FalsyValue(t.email)
                    /\ results # Null
                    /\ t.await = "saveScenario"
                         => t.req = [route |-> "POST /scenarios", body |-> t.inputs]
                    /\ t.await = "generateReport"
                         => /\ t.saveRes.route = "POST /scenarios"
                            /\ t.saveRes.status = 200
                            /\ t.saveRes.success
                            /\ t.saveRes.scenario._id \in 1..nextId
                            /\ CopiedInputs(t.saveRes.scenario) = CopiedInputs(t.inputs)
                            /\ t.saveRes.scenario.scenario_name =
                                 CastString(t.inputs.scenario_name)
                            /\ t.req = [route |-> "POST /report/generate",
                                        body |-> [scenarioId |-> t.saveRes.scenario._id,
                                                  email |-> t.email]]

\* a report request is in flight for the inputs saved at the click, which
\* the user has edited since
C10_Witness ==
    \E s \in Slots :
        /\ tasks[s].kind = "handleReport"
        /\ tasks[s].await = "generateReport"
        /\ tasks[s].stage = "sent"
        /\ inputs # tasks[s].inputs

----------------------------------------------------------------------------
\* the routes that only read the store
ReadingRoutes ==
    {"POST /simulate", "GET /scenarios", "GET /scenarios/:id",
     "POST /report/generate"}

\* a stored scenario has a name that is a non-empty string and the results
\* of the calculator on its own stored input fields
WellFormed(doc) ==
    /\ "str" \in DOMAIN doc.scenario_name
    /\ doc.scenario_name # Str("")
    /\ doc.results = computeResults(CopiedInputs(doc))

\* what a step does to the store: a scenario in the store before and after
\* is the same document, a created document takes an id never used before,
\* and only the answer to a save or a delete changes the store
StoreStep ==
    /\ \A id \in (DOMAIN store) \cap (DOMAIN store') : store'[id] = store[id]
    /\ \A id \in (DOMAIN store') \ (DOMAIN store) : id > nextId
    /\ \A c \in Slots :
          (Answers(c) /\ tasks[c].req.route \in ReadingRoutes)
              => (store' = store)
    /\ (\A c \in Slots : ~Answers(c)) => (store' = store)

====
